---- MODULE Spec2Model ----
(***************************************************************************)
(* react-onepager-nav: a navigation bar whose active entry follows the     *)
(* section in the viewport (useNav / useOnScreen / NavProvider) and whose  *)
(* entries smooth-scroll to their section on click (NavLink).              *)
(*                                                                         *)
(* One action is one reaction on the UI thread (a click handler or an      *)
(* IntersectionObserver callback, each with the React render, commit and   *)
(* effects it causes), a lifecycle step of a section (mount, unmount), or  *)
(* a step of the environment (the viewport moves, a smooth scroll ends).   *)
(*                                                                         *)
(* The IntersectionObserver is the platform's.  It is modelled by what the *)
(* code reads of it: an observer reports its target once after observe()   *)
(* and again whenever the target's ratio crosses one of the thresholds;    *)
(* entry.isIntersecting is TRUE iff the ratio has reached the lowest       *)
(* threshold; entries not yet delivered are handed to the callback as one  *)
(* array; disconnect() drops what the observer has queued.                 *)
(***************************************************************************)
EXTENDS Naturals, Sequences, FiniteSets

\* Bound of the model: the most entries one observer queues before its
\* callback runs.
MaxEntries == 2

\* The sections of the page: the identifiers given to useNav.
Sections == {"Home", "About", "Contact"}

\* The id of the element each section hangs its ref on.
ElementId(s) ==
    CASE s = "Home" -> "homeContainer"
      [] s = "About" -> "aboutContainer"
      [] s = "Contact" -> "contactContainer"

\* The configured Section Descriptors, in list order.
navLinks ==
    << [navLinkId |-> "Home", scrollToId |-> "homeContainer"],
       [navLinkId |-> "About", scrollToId |-> "aboutContainer"],
       [navLinkId |-> "Contact", scrollToId |-> "contactContainer"] >>

NavLinkIds == {navLinks[i].navLinkId : i \in DOMAIN navLinks}

\* useState(''): the initial value of the NavProvider's state.
Unset == ""

\* What document.getElementById returns when no element has the id.
Null == "null"

VARIABLES
    activeNavLinkId,  \* NavProvider: the state behind the context value
    className,        \* DOM: the class of each rendered NavLink <span>
    mounted,          \* which sections are in the tree
    isOnScreen,       \* useOnScreen: each mounted section's state
    intersecting,     \* viewport: the section's ratio has reached 0.25
    entries,          \* platform: the entries each section's observer has queued
    observers,        \* platform: how many observers observe each section's element
    scrollTarget,     \* platform: the element a smooth scroll is heading to
    uncaught,         \* window.onerror: the last error a handler let escape
    clicked,          \* history: the entry whose click was the last step, if any
    lastWrite,        \* history: the last reaction that called setActiveNavLinkId
    root,             \* React: "unrendered", "mounted", or "unmounted" by an error
    hasIntersectionObserver,  \* platform: window.IntersectionObserver exists
    unsetRef,         \* history: the section whose hook ran with ref.current
                      \* null in the last step, if any
    spanId            \* DOM: the id of each NavLink <span> under <nav>, in
                      \* document order

vars == << activeNavLinkId, className, mounted, isOnScreen, intersecting,
           entries, observers, scrollTarget, uncaught, clicked, lastWrite,
           root, hasIntersectionObserver, unsetRef, spanId >>

\* The root of the tree, the platform's capability, the unset-ref marker and
\* the spans Nav has rendered (Nav consumes no context and does not render
\* again; a NavLink that renders again keeps its id): what no reaction inside
\* a mounted tree changes.
tree == << root, hasIntersectionObserver, unsetRef, spanId >>

----------------------------------------------------------------------------
\* Faulty variant of NavLinkClass: an entry marked only while its section's
\* visibility flag is set.
NavLinkClassIfVisible(active, navLinkId) ==
    IF active = navLinkId /\ isOnScreen[navLinkId] THEN "activeClass" ELSE ""

\* NavLink's render: the class of the entry for navLinkId under the context
\* value active.
NavLinkClass(active, navLinkId) ==
    IF active = navLinkId THEN "activeClass" ELSE ""

\* Nav's render: one NavLink per descriptor, in list order.
Nav(active) ==
    [i \in DOMAIN navLinks |-> NavLinkClass(active, navLinks[i].navLinkId)]

\* Faulty variant of NavSpanIds: the entries rendered last descriptor first.
NavSpanIdsReversed ==
    [i \in DOMAIN navLinks |-> navLinks[Len(navLinks) + 1 - i].navLinkId]

\* Nav's render, navLinks.map(...): one NavLink per descriptor, in list
\* order, each a <span id={navLinkId}>.
NavSpanIds == [i \in DOMAIN navLinks |-> navLinks[i].navLinkId]

\* document.getElementById: the section whose element has the id, if that
\* section is in the tree.
getElementById(elementId) ==
    IF \E s \in Sections : mounted[s] /\ ElementId(s) = elementId
    THEN CHOOSE s \in Sections : mounted[s] /\ ElementId(s) = elementId
    ELSE Null

\* The sections that consume NavContext (useNav calls useContext): a new
\* provider value re-renders each of them.
Consumers == {s \in Sections : mounted[s]}

\* useOnScreen's effect has no dependency list: every commit of the sections
\* in R runs the cleanup of the previous effect (disconnect) and the effect
\* (observe with the observer made by this render).
EntriesAfterCommit(queued, R) ==
    [s \in Sections |-> IF s \in R THEN << intersecting[s] >> ELSE queued[s]]

\* Faulty variant of ObserversAfterCommit: the effect observing without the
\* cleanup having disconnected the observer of the previous render.
ObserversAfterCommitNoDisconnect(R) ==
    [s \in Sections |-> IF s \in R THEN observers[s] + 1 ELSE observers[s]]

ObserversAfterCommit(R) ==
    [s \in Sections |-> IF s \in R THEN (observers[s] - 1) + 1 ELSE observers[s]]

\* The position of an identifier in the configured list.
IndexOf(id) == CHOOSE i \in DOMAIN navLinks : navLinks[i].navLinkId = id

\* Faulty variant of setActiveNavLinkId: the active identifier kept per entry
\* instead of in the context, so that a write re-renders the written entry only.
setActiveNavLinkIdLocal(id, queued, R) ==
    /\ activeNavLinkId' = id
    /\ className' = [i \in DOMAIN navLinks |->
                        IF navLinks[i].navLinkId = id THEN "activeClass" ELSE className[i]]
    /\ entries' = EntriesAfterCommit(queued, R)
    /\ observers' = ObserversAfterCommit(R)

\* The NavProvider's setActiveNavLinkId(id) once React has flushed it, with
\* queued the observers' entries when it is called and R the sections that
\* re-render anyway: an equal value bails out, a new one re-renders the
\* provider (a new context value object) and with it every consumer.
setActiveNavLinkId(id, queued, R) ==
    /\ activeNavLinkId' = id
    /\ IF id = activeNavLinkId
       THEN /\ className' = className
            /\ entries' = EntriesAfterCommit(queued, R)
            /\ observers' = ObserversAfterCommit(R)
       ELSE /\ className' = Nav(id)
            /\ entries' = EntriesAfterCommit(queued, R \cup Consumers)
            /\ observers' = ObserversAfterCommit(R \cup Consumers)

----------------------------------------------------------------------------
\* Faulty variant of Init: the provider's state starting at the first entry,
\* useState('Home').
InitHomeActive ==
    /\ activeNavLinkId = "Home"
    /\ className = Nav("Home")
    /\ mounted = [s \in Sections |-> TRUE]
    /\ isOnScreen = [s \in Sections |-> FALSE]
    /\ intersecting \in [Sections -> BOOLEAN]
    /\ entries = [s \in Sections |-> << intersecting[s] >>]
    /\ observers = [s \in Sections |-> 1]
    /\ scrollTarget = Null
    /\ uncaught = ""
    /\ clicked = Unset
    /\ lastWrite = [kind |-> "none", id |-> Unset]
    /\ root = "mounted"
    /\ hasIntersectionObserver = TRUE
    /\ unsetRef = Unset
    /\ spanId = NavSpanIds

\* After construction: App has mounted NavProvider, Nav and the three
\* sections; no effect of useNav has written (isOnScreen starts false); each
\* section's observer has queued its first entry.
Init ==
    /\ activeNavLinkId = Unset
    /\ className = Nav(Unset)
    /\ mounted = [s \in Sections |-> TRUE]
    /\ isOnScreen = [s \in Sections |-> FALSE]
    /\ intersecting \in [Sections -> BOOLEAN]
    /\ entries = [s \in Sections |-> << intersecting[s] >>]
    /\ observers = [s \in Sections |-> 1]
    /\ scrollTarget = Null
    /\ uncaught = ""
    /\ clicked = Unset
    /\ lastWrite = [kind |-> "none", id |-> Unset]
    /\ root = "mounted"
    /\ hasIntersectionObserver = TRUE
    /\ unsetRef = Unset
    /\ spanId = NavSpanIds

\* Faulty variant of handleClick: the click only requests the scroll and
\* leaves the write to the section's hook.
handleClickScrollOnly(i) ==
    LET navLinkId == navLinks[i].navLinkId
        target == getElementById(navLinks[i].scrollToId)
    IN  /\ IF target = Null
           THEN /\ scrollTarget' = scrollTarget
                /\ uncaught' = "TypeError"
           ELSE /\ scrollTarget' = target
                /\ uncaught' = uncaught
        /\ clicked' = navLinkId
        /\ UNCHANGED << activeNavLinkId, className, mounted, isOnScreen,
                        intersecting, entries, observers, lastWrite >>

\* Faulty variant of handleClick: once a handler has thrown, the navigation
\* bar no longer reacts to clicks.
handleClickDeadAfterError(i) ==
    LET navLinkId == navLinks[i].navLinkId
        target == getElementById(navLinks[i].scrollToId)
    IN  IF uncaught # ""
        THEN /\ clicked' = navLinkId
             /\ UNCHANGED << activeNavLinkId, className, mounted, isOnScreen,
                             intersecting, entries, observers, scrollTarget,
                             uncaught, lastWrite >>
        ELSE /\ setActiveNavLinkId(navLinkId, entries, {})
             /\ IF target = Null
                THEN /\ scrollTarget' = scrollTarget
                     /\ uncaught' = "TypeError"
                ELSE /\ scrollTarget' = target
                     /\ uncaught' = uncaught
             /\ clicked' = navLinkId
             /\ lastWrite' = [kind |-> "click", id |-> navLinkId]
             /\ UNCHANGED << mounted, isOnScreen, intersecting >>

\* NavLink's handleClick for the i-th entry: setActiveNavLinkId(navLinkId),
\* then scrollToSection(scrollToId).  getElementById(...) is null when the
\* target is not in the document and .scrollIntoView then throws a TypeError
\* out of the handler; React still flushes the update made before the throw.
handleClick(i) ==
    LET navLinkId == navLinks[i].navLinkId
        target == getElementById(navLinks[i].scrollToId)
    IN  /\ setActiveNavLinkId(navLinkId, entries, {})
        /\ IF target = Null
           THEN /\ scrollTarget' = scrollTarget
                /\ uncaught' = "TypeError"
           ELSE /\ scrollTarget' = target
                /\ uncaught' = uncaught
        /\ clicked' = navLinkId
        /\ lastWrite' = [kind |-> "click", id |-> navLinkId]
        /\ UNCHANGED << mounted, isOnScreen, intersecting >>

\* Faulty variant of useNavWrites: ties between visible sections broken by
\* list order, a section writing only over an entry listed before it.
useNavWritesByListOrder(s, flag) ==
    flag /\ (activeNavLinkId = Unset \/ IndexOf(s) > IndexOf(activeNavLinkId))

\* Faulty variant of useNavWrites: writes suppressed while a click-triggered
\* scroll is in flight.
useNavWritesUnlessScrolling(s, flag) == flag /\ scrollTarget = Null

\* Faulty variant of useNavWrites: only the first section to become visible
\* registers itself.
useNavWritesFirstOnly(s, flag) == flag /\ activeNavLinkId = Unset

\* Faulty variant of useNavWrites: while a click-triggered scroll is in
\* flight only its destination registers itself.
useNavWritesDestinationOnly(s, flag) ==
    flag /\ (scrollTarget = Null \/ scrollTarget = s)

\* Faulty variant of useNavWrites: the effect writing on every change of the
\* flag, without the test of isOnScreen.
useNavWritesOnEveryChange(s, flag) == TRUE

\* useNav's effect, run when isOnScreen has changed to flag:
\* if (isOnScreen) setActiveNavLinkId(navLinkId).
useNavWrites(s, flag) == flag

\* Faulty variant of useNavId: the hook registering ref.current.id, the id of
\* the section's element.
useNavIdOfElement(s) == ElementId(s)

\* The identifier useNav writes for section s: its navLinkId argument.
useNavId(s) == s

\* Faulty variant of ObserverCallback: the hook keeping the ratio of the
\* report in its state, so that a visible section crossing a further
\* threshold renders again and its effect writes again.
ObserverCallbackWritesOnRepeat(s) ==
    /\ mounted[s]
    /\ entries[s] # << >>
    /\ LET entry == Head(entries[s])
           delivered == [entries EXCEPT ![s] = << >>]
       IN  IF entry = isOnScreen[s] /\ ~entry
           THEN /\ entries' = delivered
                /\ UNCHANGED << activeNavLinkId, className, isOnScreen,
                                observers, lastWrite >>
           ELSE /\ isOnScreen' = [isOnScreen EXCEPT ![s] = entry]
                /\ IF useNavWrites(s, entry)
                   THEN /\ setActiveNavLinkId(useNavId(s), delivered, {s})
                        /\ lastWrite' = [kind |-> "visible", id |-> useNavId(s)]
                   ELSE /\ entries' = EntriesAfterCommit(delivered, {s})
                        /\ observers' = ObserversAfterCommit({s})
                        /\ UNCHANGED << activeNavLinkId, className, lastWrite >>
    /\ clicked' = Unset
    /\ UNCHANGED << mounted, intersecting, scrollTarget, uncaught >>

\* Faulty variant of ObserverCallback: the hook keeping the entry itself in
\* its state, setOnScreen(entry), a new object at every report: no report
\* bails out, each one renders the section again and replaces its observer.
ObserverCallbackNoBailOut(s) ==
    /\ mounted[s]
    /\ entries[s] # << >>
    /\ LET entry == Head(entries[s])
           delivered == [entries EXCEPT ![s] = << >>]
       IN  /\ isOnScreen' = [isOnScreen EXCEPT ![s] = entry]
           /\ IF useNavWrites(s, entry) /\ entry # isOnScreen[s]
              THEN /\ setActiveNavLinkId(useNavId(s), delivered, {s})
                   /\ lastWrite' = [kind |-> "visible", id |-> useNavId(s)]
              ELSE /\ entries' = EntriesAfterCommit(delivered, {s})
                   /\ observers' = ObserversAfterCommit({s})
                   /\ UNCHANGED << activeNavLinkId, className, lastWrite >>
    /\ clicked' = Unset
    /\ UNCHANGED << mounted, intersecting, scrollTarget, uncaught >>

\* The callback of section s's observer, ([entry]) => setOnScreen(
\* entry.isIntersecting), with the render it causes.  The callback reads the
\* first entry of the array.  An equal value bails out.  A new value
\* re-renders the section: useOnScreen's effect replaces the observer, and
\* useNav's effect (isOnScreen is one of its dependencies) runs.
ObserverCallback(s) ==
    /\ mounted[s]
    /\ entries[s] # << >>
    /\ LET entry == Head(entries[s])
           delivered == [entries EXCEPT ![s] = << >>]
       IN  IF entry = isOnScreen[s]
           THEN /\ entries' = delivered
                /\ UNCHANGED << activeNavLinkId, className, isOnScreen,
                                observers, lastWrite >>
           ELSE /\ isOnScreen' = [isOnScreen EXCEPT ![s] = entry]
                /\ IF useNavWrites(s, entry)
                   THEN /\ setActiveNavLinkId(useNavId(s), delivered, {s})
                        /\ lastWrite' = [kind |-> "visible", id |-> useNavId(s)]
                   ELSE /\ entries' = EntriesAfterCommit(delivered, {s})
                        /\ observers' = ObserversAfterCommit({s})
                        /\ UNCHANGED << activeNavLinkId, className, lastWrite >>
    /\ clicked' = Unset
    /\ UNCHANGED << mounted, intersecting, scrollTarget, uncaught >>

\* A section enters the tree: useOnScreen starts from useState(false), the
\* effect observes the element, useNav's effect finds isOnScreen false.
MountSection(s) ==
    /\ ~mounted[s]
    /\ mounted' = [mounted EXCEPT ![s] = TRUE]
    /\ isOnScreen' = [isOnScreen EXCEPT ![s] = FALSE]
    /\ \E v \in BOOLEAN :
          /\ intersecting' = [intersecting EXCEPT ![s] = v]
          /\ entries' = [entries EXCEPT ![s] = << v >>]
    /\ observers' = [observers EXCEPT ![s] = observers[s] + 1]
    /\ clicked' = Unset
    /\ UNCHANGED << activeNavLinkId, className, scrollTarget, uncaught, lastWrite >>

\* Faulty variant of UnmountSection: useNav's effect returning a cleanup that
\* resets the Navigation State when the section that leaves is the active one.
UnmountSectionClearsActive(s) ==
    /\ mounted[s]
    /\ mounted' = [mounted EXCEPT ![s] = FALSE]
    /\ isOnScreen' = [isOnScreen EXCEPT ![s] = FALSE]
    /\ intersecting' = [intersecting EXCEPT ![s] = FALSE]
    /\ entries' = [entries EXCEPT ![s] = << >>]
    /\ observers' = [observers EXCEPT ![s] = observers[s] - 1]
    /\ scrollTarget' = IF scrollTarget = s THEN Null ELSE scrollTarget
    /\ activeNavLinkId' = IF activeNavLinkId = s THEN Unset ELSE activeNavLinkId
    /\ className' = Nav(activeNavLinkId')
    /\ clicked' = Unset
    /\ UNCHANGED << uncaught, lastWrite >>

\* Faulty variant of UnmountSection: useOnScreen's effect returning no cleanup,
\* so that the observer outlives the section.
UnmountSectionNoCleanup(s) ==
    /\ mounted[s]
    /\ mounted' = [mounted EXCEPT ![s] = FALSE]
    /\ isOnScreen' = [isOnScreen EXCEPT ![s] = FALSE]
    /\ intersecting' = [intersecting EXCEPT ![s] = FALSE]
    /\ scrollTarget' = IF scrollTarget = s THEN Null ELSE scrollTarget
    /\ clicked' = Unset
    /\ UNCHANGED << activeNavLinkId, className, entries, observers, uncaught,
                    lastWrite >>

\* A section leaves the tree: the cleanup of useOnScreen's effect disconnects
\* the observer; the section's state and element are gone, and so is a
\* smooth scroll heading to the element.
UnmountSection(s) ==
    /\ mounted[s]
    /\ mounted' = [mounted EXCEPT ![s] = FALSE]
    /\ isOnScreen' = [isOnScreen EXCEPT ![s] = FALSE]
    /\ intersecting' = [intersecting EXCEPT ![s] = FALSE]
    /\ entries' = [entries EXCEPT ![s] = << >>]
    /\ observers' = [observers EXCEPT ![s] = observers[s] - 1]
    /\ scrollTarget' = IF scrollTarget = s THEN Null ELSE scrollTarget
    /\ clicked' = Unset
    /\ UNCHANGED << activeNavLinkId, className, uncaught, lastWrite >>

\* The viewport moves (the user scrolls, or a smooth scroll advances) and the
\* ratio of section s crosses the lowest threshold, 0.25: an observer of the
\* element queues an entry.
VisibilityChange(s) ==
    /\ mounted[s]
    /\ Len(entries[s]) < MaxEntries
    /\ intersecting' = [intersecting EXCEPT ![s] = ~intersecting[s]]
    /\ entries' = [entries EXCEPT ![s] =
                      IF observers[s] > 0
                      THEN Append(entries[s], ~intersecting[s])
                      ELSE entries[s]]
    /\ clicked' = Unset
    /\ UNCHANGED << activeNavLinkId, className, mounted, isOnScreen, observers,
                    scrollTarget, uncaught, lastWrite >>

\* The ratio of a visible section crosses 0.5 or 0.75: an observer queues an
\* entry that reports the section intersecting again.
ThresholdCross(s) ==
    /\ mounted[s]
    /\ intersecting[s]
    /\ observers[s] > 0
    /\ Len(entries[s]) < MaxEntries
    /\ entries' = [entries EXCEPT ![s] = Append(entries[s], TRUE)]
    /\ clicked' = Unset
    /\ UNCHANGED << activeNavLinkId, className, mounted, isOnScreen, intersecting,
                    observers, scrollTarget, uncaught, lastWrite >>

\* A smooth scroll ends once its target is in the viewport.
ScrollEnd ==
    /\ scrollTarget # Null
    /\ intersecting[scrollTarget]
    /\ scrollTarget' = Null
    /\ clicked' = Unset
    /\ UNCHANGED << activeNavLinkId, className, mounted, isOnScreen, intersecting,
                    entries, observers, uncaught, lastWrite >>

\* Handlers, callbacks and lifecycle steps exist while the tree is mounted.
Click ==
    /\ root = "mounted"
    /\ \E i \in DOMAIN navLinks : handleClick(i)
    /\ UNCHANGED tree

Callback ==
    /\ root = "mounted"
    /\ \E s \in Sections : ObserverCallback(s)
    /\ UNCHANGED tree

Mount ==
    /\ root = "mounted"
    /\ \E s \in Sections : MountSection(s)
    /\ UNCHANGED tree

Unmount ==
    /\ root = "mounted"
    /\ \E s \in Sections : UnmountSection(s)
    /\ UNCHANGED tree

Scroll ==
    /\ \E s \in Sections : VisibilityChange(s)
    /\ UNCHANGED tree

Cross ==
    /\ \E s \in Sections : ThresholdCross(s)
    /\ UNCHANGED tree

Arrive ==
    /\ ScrollEnd
    /\ UNCHANGED tree

Next ==
    \/ Click
    \/ Callback
    \/ Mount
    \/ Unmount
    \/ Scroll
    \/ Cross
    \/ Arrive

Spec == Init /\ [][Next]_vars

----------------------------------------------------------------------------
\* The page before ReactDOM renders App, in a runtime with or without the
\* IntersectionObserver capability.
InitPage ==
    /\ activeNavLinkId = Unset
    /\ className = << >>
    /\ mounted = [s \in Sections |-> FALSE]
    /\ isOnScreen = [s \in Sections |-> FALSE]
    /\ intersecting = [s \in Sections |-> FALSE]
    /\ entries = [s \in Sections |-> << >>]
    /\ observers = [s \in Sections |-> 0]
    /\ scrollTarget = Null
    /\ uncaught = ""
    /\ clicked = Unset
    /\ lastWrite = [kind |-> "none", id |-> Unset]
    /\ root = "unrendered"
    /\ hasIntersectionObserver \in BOOLEAN
    /\ unsetRef = Unset
    /\ spanId = << >>

\* An error thrown while rendering or in an effect: App has no error
\* boundary, so React unmounts the whole tree.  The effect cleanups run (the
\* observers disconnect), the navigation bar and the sections leave the DOM,
\* and the error is reported uncaught.
UnmountTree(error) ==
    /\ root' = "unmounted"
    /\ className' = << >>
    /\ spanId' = << >>
    /\ mounted' = [s \in Sections |-> FALSE]
    /\ isOnScreen' = [s \in Sections |-> FALSE]
    /\ intersecting' = [s \in Sections |-> FALSE]
    /\ entries' = [s \in Sections |-> << >>]
    /\ observers' = [s \in Sections |-> 0]
    /\ scrollTarget' = Null
    /\ uncaught' = error
    /\ clicked' = Unset
    /\ UNCHANGED << activeNavLinkId, lastWrite, hasIntersectionObserver >>

\* ReactDOM renders App.  Each section's render runs useOnScreen, which calls
\* new IntersectionObserver(...): a ReferenceError where the runtime has no
\* IntersectionObserver.  Otherwise the tree mounts as in Init.
RenderApp ==
    /\ root = "unrendered"
    /\ IF hasIntersectionObserver
       THEN /\ root' = "mounted"
            /\ className' = Nav(activeNavLinkId)
            /\ spanId' = NavSpanIds
            /\ mounted' = [s \in Sections |-> TRUE]
            /\ intersecting' \in [Sections -> BOOLEAN]
            /\ entries' = [s \in Sections |-> << intersecting'[s] >>]
            /\ observers' = [s \in Sections |-> 1]
            /\ UNCHANGED << activeNavLinkId, isOnScreen, scrollTarget, uncaught,
                            clicked, lastWrite, hasIntersectionObserver >>
       ELSE UnmountTree("ReferenceError")
    /\ unsetRef' = Unset

\* A section enters the tree without its element on the ref useNav returned:
\* the render succeeds, then useOnScreen's effect calls
\* observer.observe(ref.current) with null, which throws a TypeError.
MountSectionUnsetRef(s) ==
    /\ root = "mounted"
    /\ ~mounted[s]
    /\ UnmountTree("TypeError")
    /\ unsetRef' = s

MountUnset == \E s \in Sections : MountSectionUnsetRef(s)

NextFaults ==
    \/ RenderApp
    \/ MountUnset
    \/ Next

\* The page from its load on, with the faults of the environment the code
\* can meet: no IntersectionObserver, a ref left unset.
SpecFaults == InitPage /\ [][NextFaults]_vars

----------------------------------------------------------------------------
\* The entries of the navigation bar marked active in the DOM.
ActiveEntries == {i \in DOMAIN className : className[i] = "activeClass"}

\* The visibility-enter reaction of section s: a step in which the hook's
\* isOnScreen goes from false to true.
Enter(s) == mounted[s] /\ ~isOnScreen[s] /\ isOnScreen'[s]

\* Section s is the only one whose ratio has reached the lowest threshold.
OnlyVisible(s) == \A t \in Sections : intersecting[t] <=> (t = s)

\* The element the i-th entry's scrollToId resolves to, Null when none.
TargetOf(i) == getElementById(navLinks[i].scrollToId)

\* C1: in every reachable state, whatever clicks, visibility changes, mounts
\* and unmounts came before, at most one entry of the navigation bar is
\* marked active.
AtMostOneActiveEntry == Cardinality(ActiveEntries) <= 1

AtMostOneActiveEntryWitness ==
    /\ Cardinality(ActiveEntries) = 1
    /\ \E s \in Sections : ~mounted[s]
    /\ \E s \in Sections : isOnScreen[s]
    /\ lastWrite.kind = "click"

\* C2: in the state a click on entry X leaves, before any scroll end or
\* observer callback has run, the active identifier is X and X's entry is
\* marked active, and the scroll to X's target, when the target resolves, is
\* in flight.
ClickSetsActiveInReaction ==
    \A i \in DOMAIN navLinks :
        clicked = navLinks[i].navLinkId =>
            /\ activeNavLinkId = navLinks[i].navLinkId
            /\ className[i] = "activeClass"
            /\ TargetOf(i) # Null => scrollTarget = TargetOf(i)

ClickSetsActiveInReactionWitness ==
    /\ clicked = "Contact"
    /\ activeNavLinkId = "Contact"
    /\ scrollTarget = "Contact"
    /\ ~intersecting["Contact"]
    /\ ~isOnScreen["Contact"]

\* C3: every click reaction and every visibility-enter reaction leaves its own
\* identifier active, and no other step changes the active identifier: the
\* active identifier is the one written by the most recent of these reactions,
\* in whatever order they run.
LastReactionWins ==
    [][ /\ clicked' # Unset => activeNavLinkId' = clicked'
        /\ \A s \in Sections : Enter(s) => activeNavLinkId' = s
        /\ activeNavLinkId' # activeNavLinkId =>
               (clicked' # Unset \/ \E s \in Sections : Enter(s)) ]_vars

LastReactionWinsWitness ==
    /\ \A s \in Sections : isOnScreen[s] /\ intersecting[s]
    /\ lastWrite = [kind |-> "visible", id |-> "About"]
    /\ activeNavLinkId = "About"

NoWriteAfterDisposal ==
    /\ [](\A s \in Sections :
             ~mounted[s] => (observers[s] = 0 /\ entries[s] = << >> /\ ~isOnScreen[s]))
    /\ [][ \A s \in Sections :
             (~mounted[s] /\ ~mounted'[s] /\ activeNavLinkId' # activeNavLinkId
              /\ activeNavLinkId' = s) => clicked' = s ]_vars

NoWriteAfterDisposalWitness ==
    \E s \in Sections :
        /\ ~mounted[s]
        /\ lastWrite = [kind |-> "visible", id |-> s]
        /\ activeNavLinkId = s

\* C7: a click on an entry whose target resolves to no element lets no error
\* escape and leaves the active identifier unchanged.
MissingTargetClickIsNoOp ==
    [][ \A i \in DOMAIN navLinks :
          (clicked' = navLinks[i].navLinkId /\ TargetOf(i) = Null)
          => (uncaught' = uncaught /\ activeNavLinkId' = activeNavLinkId) ]_vars

\* C8: while some descriptor's target resolves to no element the navigation
\* bar stays rendered, one entry per descriptor, and a click on an entry whose
\* target resolves sets the active identifier, requests the scroll and lets no
\* error escape, also after a click on the broken entry has thrown.
OtherEntriesStayFunctional ==
    /\ []((\E j \in DOMAIN navLinks : TargetOf(j) = Null)
            => className = Nav(activeNavLinkId))
    /\ [][ \A i \in DOMAIN navLinks :
             ( /\ clicked' = navLinks[i].navLinkId
               /\ TargetOf(i) # Null
               /\ \E j \in DOMAIN navLinks : TargetOf(j) = Null )
             => ( /\ activeNavLinkId' = navLinks[i].navLinkId
                  /\ scrollTarget' = TargetOf(i)
                  /\ uncaught' = uncaught ) ]_vars

OtherEntriesStayFunctionalWitness ==
    /\ clicked = "Home"
    /\ uncaught = "TypeError"
    /\ ~mounted["Contact"]
    /\ activeNavLinkId = "Home"
    /\ scrollTarget = "Home"

NoActiveBeforeFirstWrite ==
    lastWrite.kind = "none" => (activeNavLinkId = Unset /\ ActiveEntries = {})

NoActiveBeforeFirstWriteWitness ==
    /\ lastWrite.kind = "none"
    /\ activeNavLinkId = Unset
    /\ \A s \in Sections : mounted[s] /\ entries[s] = << >>
    /\ \E s \in Sections : ~intersecting[s]

\* C11: a hook that runs with its ref unset lets no error escape, registers
\* no observation and leaves the tree mounted.
UnsetRefIsTolerated ==
    [][ \A s \in Sections :
          unsetRef' = s =>
              (uncaught' = uncaught /\ observers'[s] = 0 /\ root' = "mounted") ]_vars

\* C12: after every commit each mounted section's element is observed by
\* exactly one observer, and a section out of the tree by none.
OneObservationPerSection ==
    \A s \in Sections : observers[s] = IF mounted[s] THEN 1 ELSE 0

OneObservationPerSectionWitness ==
    /\ \E s \in Sections : ~mounted[s] /\ observers[s] = 0
    /\ \E s \in Sections : mounted[s] /\ isOnScreen[s] /\ observers[s] = 1
    /\ lastWrite.kind = "click"
    /\ activeNavLinkId = "Contact"
    /\ \A s \in Sections : Len(entries[s]) <= 1

\* C13: when one section's observation fails (its hook runs with the ref
\* unset) the tree stays mounted, the navigation bar stays as rendered, and
\* the other sections keep their observers and their queued reports.
ObservationFailureStaysLocal ==
    [][ \A s \in Sections :
          unsetRef' = s =>
              /\ root' = "mounted"
              /\ className' = className
              /\ \A t \in Sections \ {s} :
                    /\ mounted'[t] = mounted[t]
                    /\ observers'[t] = observers[t]
                    /\ entries'[t] = entries[t] ]_vars

\* C14: in a runtime without IntersectionObserver, once App is rendered the
\* tree is mounted with its sections and its navigation bar, every click sets
\* the active identifier, and nothing but a click changes it.
DegradesToClickOnly ==
    [][ ~hasIntersectionObserver =>
          /\ root' = "mounted"
          /\ \A s \in Sections : mounted'[s]
          /\ className' = Nav(activeNavLinkId')
          /\ clicked' # Unset => activeNavLinkId' = clicked'
          /\ activeNavLinkId' # activeNavLinkId => clicked' # Unset ]_vars

\* C15: when the scroll started by the last click has brought its target
\* into the viewport and every queued report has been handled (each flag
\* agrees with its section's visibility), the active identifier is the
\* clicked entry's.
ScrollSettlesOnDestination ==
    ( /\ scrollTarget # Null
      /\ uncaught = ""
      /\ intersecting[scrollTarget]
      /\ \A s \in Sections :
            mounted[s] /\ entries[s] = << >> /\ isOnScreen[s] = intersecting[s] )
    => activeNavLinkId = scrollTarget

\* C16: an entry is marked active exactly when its identifier is the active
\* identifier, whatever the clicks, the visibility flags and the scroll.
MarkedIffActive ==
    \A i \in DOMAIN navLinks :
        className[i] = "activeClass" <=> activeNavLinkId = navLinks[i].navLinkId

MarkedIffActiveWitness ==
    /\ className = << "", "activeClass", "" >>
    /\ activeNavLinkId = "About"
    /\ ~isOnScreen["About"]
    /\ isOnScreen["Home"]
    /\ scrollTarget = "Contact"

\* C17: a click changes the active identifier and the scroll request only:
\* every section keeps its visibility flag and its observer, with what the
\* observer has queued.
ClickLeavesObservationAlone ==
    [][ clicked' # Unset =>
          /\ mounted' = mounted
          /\ isOnScreen' = isOnScreen
          /\ observers' = observers
          /\ entries' = entries ]_vars

\* C18: the navigation bar holds one entry per configured descriptor, in
\* the order of the list, whatever the active identifier is.
NavRendersListInOrder ==
    /\ Len(spanId) = Len(navLinks)
    /\ Len(className) = Len(navLinks)
    /\ \A i \in DOMAIN navLinks : spanId[i] = navLinks[i].navLinkId

NavRendersListInOrderWitness ==
    /\ spanId = << "Home", "About", "Contact" >>
    /\ activeNavLinkId = "Contact"
    /\ className[3] = "activeClass"
    /\ lastWrite = [kind |-> "visible", id |-> "Contact"]
    /\ \E s \in Sections : ~mounted[s]

\* C19: outside a click, the Navigation State is written only in a step in
\* which a section's flag goes from not visible to visible, and with that
\* section's identifier; a step in which a flag goes to not visible, or a
\* report that repeats the flag, leaves the active identifier as it was.
WritesOnlyOnEnter ==
    [][ clicked' = Unset =>
          /\ (lastWrite' # lastWrite \/ activeNavLinkId' # activeNavLinkId) =>
                \E s \in Sections :
                    /\ Enter(s)
                    /\ activeNavLinkId' = s
                    /\ lastWrite' = [kind |-> "visible", id |-> s]
          /\ \A s \in Sections :
                (isOnScreen[s] /\ ~isOnScreen'[s]) =>
                    activeNavLinkId' = activeNavLinkId ]_vars

WritesOnlyOnEnterWitness ==
    /\ \A s \in Sections : mounted[s]
    /\ lastWrite = [kind |-> "visible", id |-> "About"]
    /\ activeNavLinkId = "About"
    /\ ~isOnScreen["About"]
    /\ ~intersecting["About"]
    /\ entries["About"] = << >>
    /\ isOnScreen["Contact"]

\* C20: while a click-triggered scroll is in flight, a section whose flag
\* turns visible still writes its own identifier, and the navigation bar
\* follows, whether or not the section is the scroll's destination.
WritesNotSuppressedDuringScroll ==
    [][ \A s \in Sections :
          (scrollTarget # Null /\ Enter(s)) =>
              /\ activeNavLinkId' = s
              /\ lastWrite' = [kind |-> "visible", id |-> s]
              /\ className' = Nav(s) ]_vars

WritesNotSuppressedDuringScrollWitness ==
    /\ scrollTarget = "Contact"
    /\ uncaught = ""
    /\ ~intersecting["Contact"]
    /\ ~isOnScreen["Contact"]
    /\ isOnScreen["About"]
    /\ lastWrite = [kind |-> "visible", id |-> "About"]
    /\ activeNavLinkId = "About"

\* C21: every click on an entry, also on the entry already active and also
\* while an earlier scroll is in flight, writes that entry's identifier and
\* requests the scroll to that entry's section.
EveryClickWritesAndScrolls ==
    [][ \A i \in DOMAIN navLinks :
          clicked' = navLinks[i].navLinkId =>
              /\ activeNavLinkId' = navLinks[i].navLinkId
              /\ lastWrite' = [kind |-> "click", id |-> navLinks[i].navLinkId]
              /\ \E s \in Sections :
                    /\ ElementId(s) = navLinks[i].scrollToId
                    /\ scrollTarget' = s ]_vars

\* A step of the reaction chain: no click, no move of the viewport, no mount
\* or unmount, no scroll ending, no new report from a threshold crossed.
ReactionStep ==
    /\ clicked' = Unset
    /\ intersecting' = intersecting
    /\ mounted' = mounted
    /\ scrollTarget' = scrollTarget
    /\ ~ \E s \in Sections : entries' = [entries EXCEPT ![s] = Append(entries[s], TRUE)]

\* How many more times section s's flag can change with no further external
\* event: once when the report at the head of its queue differs from the
\* flag, and once more to agree with the viewport.
FlagChangesToCome(s) ==
    IF entries[s] # << >> /\ Head(entries[s]) # isOnScreen[s]
    THEN 1 + (IF Head(entries[s]) # intersecting[s] THEN 1 ELSE 0)
    ELSE IF isOnScreen[s] # intersecting[s] THEN 1 ELSE 0

\* How many more times section s can write with no further external event:
\* the changes of its flag to visible among FlagChangesToCome(s).
WritesToCome(s) ==
    IF entries[s] # << >> /\ Head(entries[s]) # isOnScreen[s]
    THEN IF Head(entries[s]) \/ intersecting[s] THEN 1 ELSE 0
    ELSE IF ~isOnScreen[s] /\ intersecting[s] THEN 1 ELSE 0

\* The measure of the work the reaction chain has left: the flag changes to
\* come, then the queues not yet delivered.
ChainRank ==
    ( Cardinality({s \in Sections : FlagChangesToCome(s) >= 1})
      + Cardinality({s \in Sections : FlagChangesToCome(s) = 2}) )
       * (Cardinality(Sections) + 1)
    + Cardinality({s \in Sections : entries[s] # << >>})

\* C22: every step of the reaction chain lowers ChainRank, a natural
\* number, so the chain ends after finitely many steps; within a chain a
\* section that has written does not write again, so the active identifier
\* does not go back and forth between two visible sections.
ReactionChainQuiesces ==
    [][ ReactionStep =>
          /\ ChainRank' < ChainRank
          /\ \A s \in Sections :
                /\ WritesToCome(s)' <= WritesToCome(s)
                /\ Enter(s) => WritesToCome(s)' = 0
          /\ activeNavLinkId' # activeNavLinkId =>
                \E s \in Sections :
                    Enter(s) /\ WritesToCome(s) = 1 /\ activeNavLinkId' = s ]_vars

ReactionChainQuiescesWitness ==
    /\ ChainRank = 0
    /\ \A s \in Sections : mounted[s]
    /\ isOnScreen["Home"] /\ isOnScreen["About"] /\ ~isOnScreen["Contact"]
    /\ lastWrite = [kind |-> "visible", id |-> "Home"]
    /\ activeNavLinkId = "Home"
    /\ scrollTarget = Null
    /\ uncaught = ""

\* C23: in a step that leaves section x's flag set and is not a click on
\* x's entry, x does not write: the last write stays what it was or is
\* another identifier's, and an active identifier other than x does not
\* become x, whichever sections are visible.
OneWritePerVisibleEpisode ==
    [][ \A x \in Sections :
          (isOnScreen[x] /\ isOnScreen'[x] /\ clicked' # x) =>
              /\ lastWrite' = lastWrite \/ lastWrite'.id # x
              /\ activeNavLinkId # x => activeNavLinkId' # x ]_vars

OneWritePerVisibleEpisodeWitness ==
    /\ \A s \in Sections : mounted[s] /\ entries[s] = << >>
    /\ OnlyVisible("Home")
    /\ \A s \in Sections : isOnScreen[s] <=> (s = "Home")
    /\ lastWrite = [kind |-> "click", id |-> "Contact"]
    /\ activeNavLinkId = "Contact"

\* C24: once the active identifier is a section's, no step (click, report,
\* move of the viewport, mount or unmount) takes it back to the unset value,
\* and the navigation bar keeps an entry marked.
ActiveNeverCleared ==
    [][ activeNavLinkId # Unset =>
          (activeNavLinkId' # Unset /\ ActiveEntries' # {}) ]_vars

ActiveNeverClearedWitness ==
    /\ activeNavLinkId = "Home"
    /\ ~mounted["Home"]
    /\ \A s \in Sections : ~intersecting[s] /\ ~isOnScreen[s] /\ entries[s] = << >>
    /\ className[1] = "activeClass"

====
